---- MODULE Spec2Model ----
(***************************************************************************)
(* A model of the flare-system-client: the finalizer's signing-policy      *)
(* store, the voter registration pipeline with its log tailer and the      *)
(* retry harness, and the signature submitter's round loop.                *)
(***************************************************************************)
EXTENDS Integers, Sequences, FiniteSets, TLC

(***************************************************************************)
(* Bounds of the model.                                                    *)
(***************************************************************************)
MaxEpoch == 2        \* reward epoch ids offered to the store are 0..MaxEpoch
MaxRound == 1        \* voting round ids are 0..MaxRound
MaxStore == 2        \* policies are accepted while the store holds fewer
MaxChainEpoch == 3   \* the chain is followed up to this reward epoch
NumProtocols == 2    \* the number of configured sub-protocols
MaxRoundsCfg == 2    \* max_rounds is configured in 0..MaxRoundsCfg
MaxRetriesCfg == 1   \* tx_submit_retries is configured in 0..MaxRetriesCfg
MaxTicks == 2        \* the epoch ticks followed

MaxRunEpoch == 2     \* the largest epoch index the ticker of Run delivers
MaxStopSignals == 2  \* the most values sent on stopAt
MaxHarnessRetries == 4  \* ExecuteWithRetry is called with maxRetries up to this
MaxHarnessCalls == 2    \* the calls of ExecuteWithRetry followed
MaxVoters == 2          \* the most voters of a policy handed to Encode

MaxTxSendRetries == 1   \* shared.MaxTxSendRetries
\* math.MaxInt64, cut to the widest integer the arithmetic here has; it is
\* above every epoch index either way
MaxInt64 == 2147483647
HeaderLen == 12   \* the bytes of the four fixed-width fields of an encoded policy
VoterLen == 22    \* the bytes of one voter of an encoded policy: address and weight

NONE == [nil |-> TRUE]    \* Go's nil pointer

Addrs == {"a", "b"}

\* The voter lists the policies are built from: empty, distinct addresses,
\* and lists in which an address occurs more than once.
VoterLists ==
  { <<>>, <<"a", "b">>, <<"a", "a">>, <<"b", "a", "b">> }

\* weights is parallel to voters; every position carries its own weight, so
\* that the weight stored for an address tells which occurrence was indexed.
WeightsFor(voters) == [i \in 1..Len(voters) |-> 10 * i]

RewardEpochIds == 0..MaxEpoch
VotingRoundIds == 0..MaxRound

Policies ==
  { [rewardEpochId |-> e, startVotingRoundId |-> s,
     voters |-> vs, weights |-> WeightsFor(vs)] :
       e \in RewardEpochIds, s \in VotingRoundIds, vs \in VoterLists }

VARIABLES
  spList,      \* signingPolicyStorage.spList
  voterMap,    \* signingPolicyStorage.voterMap: rewardEpochId -> voter -> voterData
  storeOp      \* the last store call and what it returned

VARIABLES
  now,             \* unix time
  chainEpoch,      \* the chain's current reward epoch id
  chainPhase,      \* where the chain is in its reward epoch ritual
  logs,            \* the log database: the events emitted so far
  tPc,             \* the tailer goroutine: "tick" (at <-ticker.C) or "send"
  eventRangeStart, \* the tailer's cursor
  tData,           \* the event the tailer is sending on its channel
  pc,              \* where the registration loop is
  powerBlockData,  \* the VotePowerBlockSelected event of the iteration
  signingPolicy,   \* the SigningPolicyInitialized event of the iteration
  ctxDone,         \* whether ctx.Done() is closed
  iter             \* what the current iteration did so far, step by step

VARIABLES
  sPc,             \* the signature submitter: "new", "idle" or "rounds"
  sCfg,            \* maxRounds and submitRetries of the SignatureSubmitter
  currentEpoch,    \* the argument of the running RunEpoch
  round,           \* the counter i of the round loop
  protocolsToSend, \* the outstanding set
  lastRound,       \* what the last completed round of the tick did
  txs,             \* the payloads submitted in the tick, in order
  ticks            \* the number of RunEpoch calls so far

VARIABLES
  rPc,             \* Run of a plain submitter: "new", "loop", "inEpoch"
                   \* or "stopped"
  pCfg,            \* submitRetries and epochOffset of the Submitter
  rEpoch,          \* the variable epoch of Run
  stopAfterEpoch,  \* the variable stopAfterEpoch of Run
  lastEpoch,       \* the values Run sent on lastEpoch, in order
  pRun,            \* what the RunEpoch in progress does; once it has
                   \* returned, the epoch it was called for
  inFlight,        \* the epochs whose RunEpoch has started and not returned
  stopOffered      \* whether a sender is waiting on stopAt

VARIABLES
  hPc,             \* the goroutine of ExecuteWithRetry: where it is
  hN,              \* the number of calls of ExecuteWithRetry so far
  hMax,            \* the argument maxRetries of the call
  hRi,             \* the loop counter ri
  hCalls,          \* how many times f was invoked in the call
  hSucceeded,      \* whether an invocation of f returned a nil error
  hOut             \* the values received from the channel out of the call

storeVars == <<spList, voterMap, storeOp>>
sigVars == <<sPc, sCfg, currentEpoch, round, protocolsToSend, lastRound, txs,
             ticks>>
regVars == <<now, chainEpoch, chainPhase, logs, tPc, eventRangeStart, tData,
             pc, powerBlockData, signingPolicy, ctxDone, iter>>
runVars == <<rPc, pCfg, rEpoch, stopAfterEpoch, lastEpoch, pRun, inFlight,
             stopOffered>>
VARIABLES
  ePc,             \* the encoding under study: "idle", "encoded" or "decoded"
  ePolicy,         \* the policy handed to Encode
  eBytes,          \* the bytes Encode returned
  eDecoded         \* what the bytes decode to

harnessVars == <<hPc, hN, hMax, hRi, hCalls, hSucceeded, hOut>>
encVars == <<ePc, ePolicy, eBytes, eDecoded>>
vars == <<storeVars, regVars, sigVars, runVars, harnessVars, encVars>>

(***************************************************************************)
(* Signing-policy store                                                    *)
(***************************************************************************)

\* uint32(x) of an int64 x: x mod 2^32, computed on two 16-bit limbs
Uint32(x) == ((x \div 65536) % 65536) * 65536 + (x % 65536)

\* cmp.Compare(a, b)
Compare(a, b) == IF a < b THEN -1 ELSE IF a > b THEN 1 ELSE 0

\* sort.Find(n, cmp) with cmp(h) = Compare(votingRoundId, list[h].start):
\* the binary search loop on the half-open 0-based range [i, j).
RECURSIVE FindLoop(_, _, _, _)
FindLoop(list, votingRoundId, i, j) ==
  IF i < j
    THEN LET h == (i + j) \div 2
         IN  IF Compare(votingRoundId, list[h + 1].startVotingRoundId) > 0
               THEN FindLoop(list, votingRoundId, h + 1, j)
               ELSE FindLoop(list, votingRoundId, i, h)
    ELSE i

\* Mutant of findByVotingRoundId: the exact-match branch is missing.
findByVotingRoundIdNoExactMatch(list, votingRoundId) ==
  LET i == FindLoop(list, votingRoundId, 0, Len(list))
  IN  IF i = 0 THEN NONE ELSE list[i]

\* findByVotingRoundId: the policy found, or NONE for nil.
findByVotingRoundId(list, votingRoundId) ==
  LET i     == FindLoop(list, votingRoundId, 0, Len(list))
      found == i < Len(list)
               /\ Compare(votingRoundId, list[i + 1].startVotingRoundId) = 0
  IN  IF found THEN list[i + 1]
      ELSE IF i = 0 THEN NONE
      ELSE list[i]

\* Mutant of AddRejects: the startVotingRoundId check is missing.
AddRejectsEpochOnly(list, sp) ==
  /\ Len(list) > 0
  /\ list[Len(list)].rewardEpochId # sp.rewardEpochId - 1

\* The consistency checks of Add: TRUE when Add returns an error.
AddRejects(list, sp) ==
  /\ Len(list) > 0
  /\ \/ list[Len(list)].rewardEpochId # sp.rewardEpochId - 1
     \/ sp.startVotingRoundId < list[Len(list)].startVotingRoundId

\* Mutant of IndexVoters: a later occurrence overwrites an earlier one.
RECURSIVE IndexVotersLastWins(_, _, _)
IndexVotersLastWins(sp, i, vMap) ==
  IF i > Len(sp.voters) THEN vMap
  ELSE IndexVotersLastWins(sp, i + 1,
         [a \in DOMAIN vMap \cup {sp.voters[i]} |->
            IF a = sp.voters[i]
              THEN [index |-> i - 1, weight |-> sp.weights[i]]
              ELSE vMap[a]])

\* The loop of Add over sp.voters: an address is entered only if absent.
RECURSIVE IndexVoters(_, _, _)
IndexVoters(sp, i, vMap) ==
  IF i > Len(sp.voters) THEN vMap
  ELSE LET voter == sp.voters[i]
       IN  IF voter \in DOMAIN vMap
             THEN IndexVoters(sp, i + 1, vMap)
             ELSE IndexVoters(sp, i + 1,
                    [a \in DOMAIN vMap \cup {voter} |->
                       IF a = voter
                         THEN [index |-> i - 1, weight |-> sp.weights[i]]
                         ELSE vMap[a]])

EmptyMap == [a \in {} |-> 0]

\* s.voterMap[sp.rewardEpochId] = vMap
MapPut(m, k, v) == [x \in DOMAIN m \cup {k} |-> IF x = k THEN v ELSE m[x]]

\* Mutant of MapDelete: the entry stays in the map.
MapDeleteKeeps(m, k) == m

\* delete(s.voterMap, k)
MapDelete(m, k) == [x \in DOMAIN m \ {k} |-> m[x]]

\* Mutant of Add: the policy is appended before the consistency checks.
AddAppendsFirst(sp) ==
  /\ Len(spList) < MaxStore
  /\ spList' = Append(spList, sp)
  /\ IF AddRejects(spList, sp)
       THEN /\ storeOp' = [op |-> "Add", err |-> TRUE]
            /\ UNCHANGED voterMap
       ELSE /\ voterMap' = MapPut(voterMap, sp.rewardEpochId,
                                  IndexVoters(sp, 1, EmptyMap))
            /\ storeOp' = [op |-> "Add", err |-> FALSE]

Add(sp) ==
  IF AddRejects(spList, sp)
    THEN /\ storeOp' = [op |-> "Add", err |-> TRUE]
         /\ UNCHANGED <<spList, voterMap>>
    ELSE /\ Len(spList) < MaxStore
         /\ spList' = Append(spList, sp)
         /\ voterMap' = MapPut(voterMap, sp.rewardEpochId,
                               IndexVoters(sp, 1, EmptyMap))
         /\ storeOp' = [op |-> "Add", err |-> FALSE]

GetForVotingRound(votingRoundId) ==
  /\ storeOp' = [op |-> "Get", arg |-> votingRoundId,
                 ret |-> findByVotingRoundId(spList, votingRoundId)]
  /\ UNCHANGED <<spList, voterMap>>

\* Mutant of RemoveLoop: the comparison is strict.
RECURSIVE RemoveLoopStrict(_, _, _, _)
RemoveLoopStrict(list, map, votingRoundId, removed) ==
  IF Len(list) > 0 /\ list[1].startVotingRoundId < votingRoundId
    THEN RemoveLoopStrict(Tail(list), MapDelete(map, list[1].rewardEpochId),
                          votingRoundId,
                          Append(removed, Uint32(list[1].rewardEpochId)))
    ELSE [list |-> list, map |-> map, removed |-> removed]

\* The loop of RemoveByVotingRound: drops front policies while their start
\* is <= votingRoundId; yields the final list, map and removed ids.
RECURSIVE RemoveLoop(_, _, _, _)
RemoveLoop(list, map, votingRoundId, removed) ==
  IF Len(list) > 0 /\ list[1].startVotingRoundId <= votingRoundId
    THEN RemoveLoop(Tail(list), MapDelete(map, list[1].rewardEpochId),
                    votingRoundId,
                    Append(removed, Uint32(list[1].rewardEpochId)))
    ELSE [list |-> list, map |-> map, removed |-> removed]

RemoveByVotingRound(votingRoundId) ==
  LET r == RemoveLoop(spList, voterMap, votingRoundId, <<>>)
  IN  /\ spList' = r.list
      /\ voterMap' = r.map
      /\ storeOp' = [op |-> "Remove", arg |-> votingRoundId,
                     ret |-> r.removed]

StoreInit ==
  /\ spList = <<>>
  /\ voterMap = EmptyMap
  /\ storeOp = [op |-> "new"]

StoreNext ==
  \/ \E sp \in Policies : Add(sp) /\ UNCHANGED <<regVars, sigVars, runVars, harnessVars, encVars>>
  \/ \E v \in VotingRoundIds : GetForVotingRound(v) /\ UNCHANGED <<regVars, sigVars, runVars, harnessVars, encVars>>
  \/ \E v \in VotingRoundIds : RemoveByVotingRound(v) /\ UNCHANGED <<regVars, sigVars, runVars, harnessVars, encVars>>

(***************************************************************************)
(* The chain and its log database, as the registration client sees them    *)
(***************************************************************************)

\* The chain emits VotePowerBlockSelected for the next reward epoch, then
\* SigningPolicyInitialized for it, then the next reward epoch starts.
ChainEmit(kind, phase, next) ==
  /\ chainPhase = phase
  /\ chainEpoch < MaxChainEpoch
  /\ now' = now + 1
  /\ logs' = Append(logs, [kind |-> kind, RewardEpochId |-> chainEpoch + 1,
                           Timestamp |-> now + 1])
  /\ chainPhase' = next
  /\ UNCHANGED <<chainEpoch, tPc, eventRangeStart, tData, pc, powerBlockData,
                 signingPolicy, ctxDone, iter>>

ChainVotePowerBlockSelected == ChainEmit("VPB", "idle", "vpb")

ChainSigningPolicyInitialized == ChainEmit("SPI", "vpb", "spi")

ChainNewRewardEpoch ==
  /\ chainPhase = "spi"
  /\ chainEpoch' = chainEpoch + 1
  /\ chainPhase' = "idle"
  /\ UNCHANGED <<now, logs, tPc, eventRangeStart, tData, pc, powerBlockData,
                 signingPolicy, ctxDone, iter>>

\* db.FetchLogsByAddressAndTopic0(address, topic0, from, to): the logs of the
\* topic with from < timestamp <= to, oldest first.
FetchLogsByAddressAndTopic0(topic0, from, to) ==
  SelectSeq(logs, LAMBDA l : /\ l.kind = topic0
                             /\ from < l.Timestamp
                             /\ l.Timestamp <= to)

(***************************************************************************)
(* The log tailer: VotePowerBlockSelectedListener's goroutine              *)
(***************************************************************************)

PollOutcomes == {"ok", "fetchError", "parseError"}

\* Mutant of TailerPoll: the first log of the batch is the one sent.
TailerPollSendsFirst(outcome) ==
  /\ tPc = "tick"
  /\ LET fetched == FetchLogsByAddressAndTopic0("VPB", eventRangeStart, now)
     IN  IF outcome = "ok" /\ Len(fetched) > 0
           THEN /\ tData' = fetched[1]
                /\ tPc' = "send"
           ELSE UNCHANGED <<tData, tPc>>
  /\ UNCHANGED <<now, chainEpoch, chainPhase, logs, eventRangeStart, pc,
                 powerBlockData, signingPolicy, ctxDone, iter>>

\* One pass of the loop body after <-ticker.C, up to the send on out.
TailerPoll(outcome) ==
  /\ tPc = "tick"
  /\ LET fetched == FetchLogsByAddressAndTopic0("VPB", eventRangeStart, now)
     IN  IF outcome = "ok" /\ Len(fetched) > 0
           THEN /\ tData' = fetched[Len(fetched)]
                /\ tPc' = "send"
           ELSE UNCHANGED <<tData, tPc>>
  /\ UNCHANGED <<now, chainEpoch, chainPhase, logs, eventRangeStart, pc,
                 powerBlockData, signingPolicy, ctxDone, iter>>

\* Mutant of TailerDelivered: the cursor is not moved after the send.
TailerDeliveredKeepsCursor ==
  /\ tPc = "send"
  /\ eventRangeStart' = eventRangeStart
  /\ tPc' = "tick"
  /\ tData' = NONE

\* The tailer's side of the rendezvous on out: the send completes, the
\* cursor moves to the event's timestamp, the loop goes back to the ticker.
TailerDelivered ==
  /\ tPc = "send"
  /\ eventRangeStart' = tData.Timestamp
  /\ tPc' = "tick"
  /\ tData' = NONE

(***************************************************************************)
(* The retry harness and the chain calls made through it                   *)
(***************************************************************************)

\* strings.Contains(s, item) on texts modelled as sequences of words.
Contains(s, item) ==
  \E k \in 0..(Len(s) - Len(item)) :
    \A j \in 1..Len(item) : s[k + j] = item[j]

\* ExistsAsSubstring(slice, s): the loop over slice.
RECURSIVE ExistsAsSubstringFrom(_, _, _)
ExistsAsSubstringFrom(slice, s, k) ==
  IF k > Len(slice) THEN FALSE
  ELSE IF Contains(s, slice[k]) THEN TRUE
  ELSE ExistsAsSubstringFrom(slice, s, k + 1)

ExistsAsSubstring(slice, s) == ExistsAsSubstringFrom(slice, s, 1)

\* "new signing policy already signed"
nonFatalSignNewSigningPolicyErrors == << <<"already", "signed">> >>

\* ExecuteWithRetry(f, maxRetries): errs[ri + 1] tells whether attempt ri of
\* f returns an error. Yields the status sent on the channel and the number
\* of times f was called.
RECURSIVE RetryLoop(_, _, _)
RetryLoop(errs, maxRetries, ri) ==
  IF ri < maxRetries
    THEN IF ~errs[ri + 1]
           THEN [Success |-> TRUE, Message |-> "", calls |-> ri + 1]
           ELSE RetryLoop(errs, maxRetries, ri + 1)
    ELSE [Success |-> FALSE, Message |-> "max retries reached", calls |-> ri]

ExecuteWithRetry(errs, maxRetries) == RetryLoop(errs, maxRetries, 0)

\* What one run of sendSignNewSigningPolicy can meet.
ErrorTexts ==
  { <<"reverted", "already", "signed">>, <<"already", "signed", "by", "voter">>,
    <<"signed", "already">>, <<"nonce", "too", "low">> }

SignOutcomes ==
  {[kind |-> "signError"], [kind |-> "mined"], [kind |-> "mineError"]}
    \cup {[kind |-> "callError", text |-> t] : t \in ErrorTexts}

\* Mutant of sendSignNewSigningPolicy: every error of the call is returned.
sendSignNewSigningPolicyAllFatal(o) ==
  IF o.kind \in {"signError", "callError"} THEN [err |-> TRUE, waited |-> FALSE]
  ELSE IF o.kind = "mineError" THEN [err |-> TRUE, waited |-> TRUE]
  ELSE [err |-> FALSE, waited |-> TRUE]

\* sendSignNewSigningPolicy under outcome o: whether it returns an error and
\* whether it waited for the transaction to be mined.
sendSignNewSigningPolicy(o) ==
  IF o.kind = "signError" THEN [err |-> TRUE, waited |-> FALSE]
  ELSE IF o.kind = "callError"
    THEN IF ExistsAsSubstring(nonFatalSignNewSigningPolicyErrors, o.text)
           THEN [err |-> FALSE, waited |-> FALSE]
           ELSE [err |-> TRUE, waited |-> FALSE]
  ELSE IF o.kind = "mineError" THEN [err |-> TRUE, waited |-> TRUE]
  ELSE [err |-> FALSE, waited |-> TRUE]

\* SignNewSigningPolicy: sendSignNewSigningPolicy through the harness; outs
\* gives the outcome each attempt would meet.
SignNewSigningPolicy(outs) ==
  LET runs == [k \in 1..Len(outs) |-> sendSignNewSigningPolicy(outs[k])]
      st   == ExecuteWithRetry([k \in 1..Len(outs) |-> runs[k].err],
                               MaxTxSendRetries)
  IN  [Success |-> st.Success,
       attempts |-> [k \in 1..st.calls |-> outs[k]],
       waited |-> [k \in 1..st.calls |-> runs[k].waited]]

\* GetCurrentRewardEpochId: the view call through the harness.
GetCurrentRewardEpochId(errs) ==
  LET st == ExecuteWithRetry(errs, MaxTxSendRetries)
  IN  [Success |-> st.Success, Value |-> chainEpoch]

\* Mutant of verifyEpoch: an epoch equal to the current one passes.
verifyEpochStrict(epochId, epochIdResult) ==
  IF ~epochIdResult.Success THEN FALSE
  ELSE IF epochId < epochIdResult.Value THEN FALSE
  ELSE TRUE

\* verifyEpoch(epochId) given the status read from the channel.
verifyEpoch(epochId, epochIdResult) ==
  IF ~epochIdResult.Success THEN FALSE
  ELSE IF epochId <= epochIdResult.Value THEN FALSE
  ELSE TRUE

\* relayClient.SigningPolicyInitializedListener(db, from): the event its
\* channel delivers, the last SigningPolicyInitialized log after from.
SigningPolicyInitializedListener(from) ==
  LET fetched == FetchLogsByAddressAndTopic0("SPI", from, now)
  IN  IF Len(fetched) > 0 THEN fetched[Len(fetched)] ELSE NONE

(***************************************************************************)
(* The registration loop: RunContext                                       *)
(***************************************************************************)

\* Whether the iteration recorded in it ended in a skip.
Skipped(it) == Len(it) > 1 /\ ~it[Len(it)].ok

\* select: case powerBlockData = <-vpbsListener
AwaitVPB ==
  /\ pc = "AwaitVPB"
  /\ TailerDelivered
  /\ powerBlockData' = tData
  /\ iter' = << [step |-> "vpb", ok |-> TRUE, epoch |-> tData.RewardEpochId,
                 afterSkip |-> Skipped(iter)] >>
  /\ pc' = "VerifyEpoch"
  /\ UNCHANGED <<now, chainEpoch, chainPhase, logs, signingPolicy, ctxDone>>

\* Mutant of AwaitCancelled: the epoch check is made once more before the
\* return.
AwaitCancelledChecksEpoch ==
  /\ pc = "AwaitVPB"
  /\ ctxDone
  /\ iter' = Append(iter, [step |-> "verify", ok |-> FALSE, callOk |-> TRUE,
                           current |-> chainEpoch])
  /\ pc' = "Returned"
  /\ UNCHANGED <<now, chainEpoch, chainPhase, logs, tPc, eventRangeStart,
                 tData, powerBlockData, signingPolicy, ctxDone>>

\* select: case <-ctx.Done(): return ctx.Err()
AwaitCancelled ==
  /\ pc = "AwaitVPB"
  /\ ctxDone
  /\ pc' = "Returned"
  /\ UNCHANGED <<now, chainEpoch, chainPhase, logs, tPc, eventRangeStart,
                 tData, powerBlockData, signingPolicy, ctxDone, iter>>

\* if !c.verifyEpoch(powerBlockData.RewardEpochId) { continue }
VerifyEpoch(errs) ==
  /\ pc = "VerifyEpoch"
  /\ LET res == GetCurrentRewardEpochId(errs)
         ok  == verifyEpoch(powerBlockData.RewardEpochId, res)
     IN  /\ iter' = Append(iter, [step |-> "verify", ok |-> ok,
                                  callOk |-> res.Success,
                                  current |-> res.Value])
         /\ pc' = IF ok THEN "Register" ELSE "AwaitVPB"
  /\ UNCHANGED <<now, chainEpoch, chainPhase, logs, tPc, eventRangeStart,
                 tData, powerBlockData, signingPolicy, ctxDone>>

\* Mutant of Register: the continue after a failed registration is missing.
RegisterNoContinue(success) ==
  /\ pc = "Register"
  /\ iter' = Append(iter, [step |-> "register", ok |-> success,
                           epoch |-> powerBlockData.RewardEpochId])
  /\ pc' = "AwaitSPI"
  /\ UNCHANGED <<now, chainEpoch, chainPhase, logs, tPc, eventRangeStart,
                 tData, powerBlockData, signingPolicy, ctxDone>>

\* registerResult := <-c.registryClient.RegisterVoter(...); continue on failure
Register(success) ==
  /\ pc = "Register"
  /\ iter' = Append(iter, [step |-> "register", ok |-> success,
                           epoch |-> powerBlockData.RewardEpochId])
  /\ pc' = IF success THEN "AwaitSPI" ELSE "AwaitVPB"
  /\ UNCHANGED <<now, chainEpoch, chainPhase, logs, tPc, eventRangeStart,
                 tData, powerBlockData, signingPolicy, ctxDone>>

\* signingPolicy := <-c.relayClient.SigningPolicyInitializedListener(...)
AwaitSPI ==
  /\ pc = "AwaitSPI"
  /\ LET ev == SigningPolicyInitializedListener(powerBlockData.Timestamp)
     IN  /\ ev # NONE
         /\ signingPolicy' = ev
         /\ iter' = Append(iter, [step |-> "spi", ok |-> TRUE,
                                  epoch |-> ev.RewardEpochId])
  /\ pc' = "Sign"
  /\ UNCHANGED <<now, chainEpoch, chainPhase, logs, tPc, eventRangeStart,
                 tData, powerBlockData, ctxDone>>

\* signingResult := <-c.systemsManagerClient.SignNewSigningPolicy(...)
SignPolicy(outs) ==
  /\ pc = "Sign"
  /\ LET res == SignNewSigningPolicy(outs)
     IN  iter' = Append(iter, [step |-> "sign", ok |-> res.Success,
                              epoch |-> signingPolicy.RewardEpochId,
                              attempts |-> res.attempts,
                              waited |-> res.waited])
  /\ pc' = "AwaitVPB"
  /\ UNCHANGED <<now, chainEpoch, chainPhase, logs, tPc, eventRangeStart,
                 tData, powerBlockData, signingPolicy, ctxDone>>

\* The owner of ctx cancels it.
Cancel ==
  /\ ~ctxDone
  /\ ctxDone' = TRUE
  /\ UNCHANGED <<now, chainEpoch, chainPhase, logs, tPc, eventRangeStart,
                 tData, pc, powerBlockData, signingPolicy, iter>>

RegInit ==
  /\ now = 0
  /\ chainEpoch = 0
  /\ chainPhase = "idle"
  /\ logs = <<>>
  /\ tPc = "tick"
  /\ eventRangeStart = 0
  /\ tData = NONE
  /\ pc = "AwaitVPB"
  /\ powerBlockData = NONE
  /\ signingPolicy = NONE
  /\ ctxDone = FALSE
  /\ iter = <<>>

AttemptErrs == [1..MaxTxSendRetries -> BOOLEAN]

AttemptOutcomes == [1..MaxTxSendRetries -> SignOutcomes]

\* The chain calls of RunContext, whatever they meet: each of them returns.
VerifyEpochStep == \E errs \in AttemptErrs : VerifyEpoch(errs)

RegisterStep == \E success \in BOOLEAN : Register(success)

SignPolicyStep == \E outs \in AttemptOutcomes : SignPolicy(outs)

RegNext ==
  \/ ChainVotePowerBlockSelected /\ UNCHANGED <<storeVars, sigVars, runVars, harnessVars, encVars>>
  \/ ChainSigningPolicyInitialized /\ UNCHANGED <<storeVars, sigVars, runVars, harnessVars, encVars>>
  \/ ChainNewRewardEpoch /\ UNCHANGED <<storeVars, sigVars, runVars, harnessVars, encVars>>
  \/ \E outcome \in PollOutcomes : TailerPoll(outcome) /\ UNCHANGED <<storeVars, sigVars, runVars, harnessVars, encVars>>
  \/ AwaitVPB /\ UNCHANGED <<storeVars, sigVars, runVars, harnessVars, encVars>>
  \/ AwaitCancelled /\ UNCHANGED <<storeVars, sigVars, runVars, harnessVars, encVars>>
  \/ VerifyEpochStep /\ UNCHANGED <<storeVars, sigVars, runVars, harnessVars, encVars>>
  \/ RegisterStep /\ UNCHANGED <<storeVars, sigVars, runVars, harnessVars, encVars>>
  \/ AwaitSPI /\ UNCHANGED <<storeVars, sigVars, runVars, harnessVars, encVars>>
  \/ SignPolicyStep /\ UNCHANGED <<storeVars, sigVars, runVars, harnessVars, encVars>>
  \/ Cancel /\ UNCHANGED <<storeVars, sigVars, runVars, harnessVars, encVars>>

(***************************************************************************)
(* The signature submitter                                                 *)
(***************************************************************************)

SubProtocols == 0..(NumProtocols - 1)

Max(a, b) == IF a >= b THEN a ELSE b

\* newSignatureSubmitter(..., submitCfg, ...)
newSignatureSubmitter(txSubmitRetries, maxRounds) ==
  /\ sPc = "new"
  /\ sCfg' = [submitRetries |-> Max(1, txSubmitRetries),
              maxRounds |-> maxRounds]
  /\ sPc' = "idle"
  /\ UNCHANGED <<currentEpoch, round, protocolsToSend, lastRound, txs, ticks>>

\* SubmitterBase.submit(payload): chain.SendRawTx through the retry harness;
\* sendErrs tells which attempts would fail.
submit(sendErrs) == ExecuteWithRetry(sendErrs, sCfg.submitRetries).Success

\* The orders in which the fetches launched for the protocols of S can
\* complete.
Orders(S) ==
  {o \in [1..Cardinality(S) -> S] :
     \A a, b \in 1..Cardinality(S) : a # b => o[a] # o[b]}

\* The data provider i returns: opaque bytes, told apart by their provider.
ProviderData(i) == <<"data", i>>

\* Mutant of Deliver: the k-th fetch to complete fills the k-th launched
\* channel.
RECURSIVE DeliverInCompletionOrder(_, _, _, _)
DeliverInCompletionOrder(order, fetchOk, k, channels) ==
  IF k > Len(order) THEN channels
  ELSE LET slot == CHOOSE i \in DOMAIN channels :
                     Cardinality({j \in DOMAIN channels : j <= i}) = k
       IN  DeliverInCompletionOrder(order, fetchOk, k + 1,
             [channels EXCEPT ![slot] =
                [Success |-> order[k] \in fetchOk,
                 Value |-> [Data |-> ProviderData(order[k])]]])

\* channels[i] = protocol.getDataWithRetry(...): the fetches complete in the
\* order given, from the k-th on, and each sends its status on the channel
\* made for its sub-protocol.
RECURSIVE Deliver(_, _, _, _)
Deliver(order, fetchOk, k, channels) ==
  IF k > Len(order) THEN channels
  ELSE Deliver(order, fetchOk, k + 1,
         [channels EXCEPT ![order[k]] =
            [Success |-> order[k] \in fetchOk,
             Value |-> [Data |-> ProviderData(order[k])]]])

\* WritePayload(buffer, currentEpoch, data): the entry appended to the
\* buffer.
WritePayload(buffer, epoch, data) ==
  Append(buffer, [protocolId |-> 100, epoch |-> Uint32(epoch - 1),
                  type |-> 0, data |-> data.Data])

\* Mutant of CollectRound: the last outstanding protocol stays in the
\* outstanding set after its entry was written.
RECURSIVE CollectRoundNoRemove(_, _, _, _, _, _)
CollectRoundNoRemove(i, toSend, buffer, epoch, channels, writeOk) ==
  IF i >= NumProtocols THEN [toSend |-> toSend, buffer |-> buffer]
  ELSE IF i \notin toSend \/ ~channels[i].Success \/ i \notin writeOk
    THEN CollectRoundNoRemove(i + 1, toSend, buffer, epoch, channels, writeOk)
  ELSE CollectRoundNoRemove(i + 1,
                            IF Cardinality(toSend) > 1 THEN toSend \ {i}
                                                       ELSE toSend,
                            WritePayload(buffer, epoch - 1, channels[i].Value),
                            epoch, channels, writeOk)

\* The loop of a round over the sub-protocols, from index i on: awaits the
\* fetch of each outstanding protocol on channels[i], writes its entry and
\* removes it from the outstanding set. writeOk holds the protocols whose
\* entry WritePayload writes without error.
RECURSIVE CollectRound(_, _, _, _, _, _)
CollectRound(i, toSend, buffer, epoch, channels, writeOk) ==
  IF i >= NumProtocols THEN [toSend |-> toSend, buffer |-> buffer]
  ELSE IF i \notin toSend
    THEN CollectRound(i + 1, toSend, buffer, epoch, channels, writeOk)
  ELSE IF ~channels[i].Success
    THEN CollectRound(i + 1, toSend, buffer, epoch, channels, writeOk)
  ELSE IF i \notin writeOk
    THEN CollectRound(i + 1, toSend, buffer, epoch, channels, writeOk)
  ELSE CollectRound(i + 1, toSend \ {i},
                    WritePayload(buffer, epoch - 1, channels[i].Value),
                    epoch, channels, writeOk)

\* Mutant of AfterSubmit: the outstanding set is put back after every
\* submission.
AfterSubmitAlwaysRestore(sent, collected, protocolsToSendCopy) ==
  protocolsToSendCopy

\* Mutant of AfterSubmit: the outstanding set is not restored on failure.
AfterSubmitNoRestore(sent, collected, protocolsToSendCopy) == collected

\* What protocolsToSend is after the submission of a round.
AfterSubmit(sent, collected, protocolsToSendCopy) ==
  IF sent THEN collected ELSE protocolsToSendCopy

\* Mutant of HasNewData: every round is taken to have brought new data.
HasNewDataAlways(protocolsToSendCopy, toSend) == TRUE

\* if protocolsToSendCopy.Cardinality() > protocolsToSend.Cardinality()
HasNewData(protocolsToSendCopy, toSend) ==
  Cardinality(protocolsToSendCopy) > Cardinality(toSend)

\* RunEpoch(currentEpoch) up to the round loop.
SigRunEpoch(epoch) ==
  /\ sPc = "idle"
  /\ ticks < MaxTicks
  /\ epoch > currentEpoch
  /\ ticks' = ticks + 1
  /\ currentEpoch' = epoch
  /\ protocolsToSend' = SubProtocols
  /\ round' = 0
  /\ lastRound' = NONE
  /\ txs' = <<>>
  /\ sPc' = "rounds"
  /\ UNCHANGED sCfg

\* One pass of the round loop. order is the order in which the fetches of
\* the round complete, fetchOk the protocols whose fetch succeeds.
SigRound(order, fetchOk, writeOk, sendErrs) ==
  /\ sPc = "rounds"
  /\ round < sCfg.maxRounds
  /\ Cardinality(protocolsToSend) > 0
  /\ LET fetched == protocolsToSend
         channels == Deliver(order, fetchOk, 1,
                             [i \in protocolsToSend |-> NONE])
         protocolsToSendCopy == protocolsToSend
         got == CollectRound(0, protocolsToSend, <<>>, currentEpoch,
                              channels, writeOk)
         submitted == HasNewData(protocolsToSendCopy, got.toSend)
         sent == submitted /\ submit(sendErrs)
     IN  /\ protocolsToSend' =
              IF submitted
                THEN AfterSubmit(sent, got.toSend, protocolsToSendCopy)
                ELSE got.toSend
         /\ txs' = IF submitted THEN Append(txs, [buffer |-> got.buffer,
                                                  ok |-> sent])
                                ELSE txs
         /\ lastRound' = [round |-> round,
                          before |-> protocolsToSendCopy,
                          fetched |-> fetched,
                          fetchEpoch |-> currentEpoch - 1,
                          anyFetched |-> fetchOk \cap fetched # {},
                          outOfOrder |-> \E a \in 1..(Len(order) - 1) :
                                           order[a] > order[a + 1],
                          buffer |-> got.buffer,
                          submitted |-> submitted,
                          ok |-> sent,
                          afterFailed |-> lastRound # NONE
                                          /\ lastRound.submitted
                                          /\ ~lastRound.ok,
                          first |-> IF round = 0
                                      THEN [allFetched |-> fetchOk = fetched,
                                            allWritten |-> writeOk = fetched,
                                            ok |-> sent]
                                      ELSE lastRound.first]
  /\ round' = round + 1
  /\ UNCHANGED <<sPc, sCfg, currentEpoch, ticks>>

\* Mutant of SigRunEpochReturns: the loop is left only when nothing is
\* outstanding.
SigRunEpochReturnsWhenEmpty ==
  /\ sPc = "rounds"
  /\ Cardinality(protocolsToSend) = 0
  /\ sPc' = "idle"
  /\ UNCHANGED <<sCfg, currentEpoch, round, protocolsToSend, lastRound, txs,
                 ticks>>

\* The round loop's condition fails: RunEpoch returns.
SigRunEpochReturns ==
  /\ sPc = "rounds"
  /\ ~(round < sCfg.maxRounds /\ Cardinality(protocolsToSend) > 0)
  /\ sPc' = "idle"
  /\ UNCHANGED <<sCfg, currentEpoch, round, protocolsToSend, lastRound, txs,
                 ticks>>

SigInit ==
  /\ sPc = "new"
  /\ sCfg = NONE
  /\ currentEpoch = 0
  /\ round = 0
  /\ protocolsToSend = {}
  /\ lastRound = NONE
  /\ txs = <<>>
  /\ ticks = 0

\* The epoch index the ticker delivers next: one per epoch, from epoch 2 on.
TickEpochs == {2 + ticks}

\* What the attempts of a submission can meet: one outcome per attempt.
SendErrs ==
  [1..(IF sCfg = NONE THEN 1 ELSE sCfg.submitRetries) -> BOOLEAN]

\* One pass of the round loop, whatever its fetches and its submission
\* yield.
SigRoundStep ==
  \E order \in Orders(protocolsToSend) :
    \E fetchOk \in SUBSET protocolsToSend :
      \E writeOk \in SUBSET fetchOk :
        \E sendErrs \in SendErrs :
          SigRound(order, fetchOk, writeOk, sendErrs)

SigNext ==
  \/ \E r \in 0..MaxRetriesCfg, m \in 0..MaxRoundsCfg :
       newSignatureSubmitter(r, m) /\ UNCHANGED <<storeVars, regVars, runVars, harnessVars, encVars>>
  \/ \E e \in TickEpochs : SigRunEpoch(e) /\ UNCHANGED <<storeVars, regVars, runVars, harnessVars, encVars>>
  \/ SigRoundStep /\ UNCHANGED <<storeVars, regVars, runVars, harnessVars, encVars>>
  \/ SigRunEpochReturns /\ UNCHANGED <<storeVars, regVars, runVars, harnessVars, encVars>>

(***************************************************************************)
(* The plain submitter and the loop Run that drives a submitter            *)
(***************************************************************************)

\* What the fetch of one sub-protocol can end in: the harness fails, or the
\* provider answers with a status.
FetchResults == {"fail", "ERR", "OK"}

\* newSubmitter(..., submitCfg, ..., epochOffset, name)
newSubmitter(txSubmitRetries, epochOffset) ==
  /\ rPc = "new"
  /\ pCfg' = [submitRetries |-> Max(1, txSubmitRetries),
              epochOffset |-> epochOffset]
  /\ rPc' = "loop"
  /\ UNCHANGED <<rEpoch, stopAfterEpoch, lastEpoch, pRun, inFlight,
                 stopOffered>>

\* channels[i] = protocol.getDataWithRetry(...) in GetPayload: the fetches
\* complete in the order given, from the k-th on, and each sends its status
\* on the channel made for its sub-protocol.
RECURSIVE GetPayloadChannels(_, _, _, _)
GetPayloadChannels(order, results, k, channels) ==
  IF k > Len(order) THEN channels
  ELSE GetPayloadChannels(order, results, k + 1,
         [channels EXCEPT ![order[k]] =
            [Success |-> results[order[k]] # "fail",
             Value |-> [Status |-> results[order[k]],
                        Data |-> ProviderData(order[k])]]])

\* Mutant of PayloadLoop: the status of the answer is not looked at.
RECURSIVE PayloadLoopIgnoresStatus(_, _, _)
PayloadLoopIgnoresStatus(i, buffer, channels) ==
  IF i >= NumProtocols THEN buffer
  ELSE IF ~channels[i].Success
    THEN PayloadLoopIgnoresStatus(i + 1, buffer, channels)
  ELSE PayloadLoopIgnoresStatus(i + 1, Append(buffer, channels[i].Value.Data),
                                channels)

\* for _, channel := range channels { data := <-channel; ... }
RECURSIVE PayloadLoop(_, _, _)
PayloadLoop(i, buffer, channels) ==
  IF i >= NumProtocols THEN buffer
  ELSE IF ~channels[i].Success \/ channels[i].Value.Status # "OK"
    THEN PayloadLoop(i + 1, buffer, channels)
  ELSE PayloadLoop(i + 1, Append(buffer, channels[i].Value.Data), channels)

\* Mutant of GetPayload: a failed fetch makes GetPayload return an error.
GetPayloadAborts(order, results) ==
  LET channels == GetPayloadChannels(order, results, 1,
                                     [i \in SubProtocols |-> NONE])
  IN  [payload |-> PayloadLoop(0, <<"selector">>, channels),
       err |-> IF \E i \in SubProtocols : results[i] # "OK"
                 THEN "error" ELSE "nil"]

\* GetPayload(currentEpoch): the payload and the error it returns.
GetPayload(order, results) ==
  LET channels == GetPayloadChannels(order, results, 1,
                                     [i \in SubProtocols |-> NONE])
  IN  [payload |-> PayloadLoop(0, <<"selector">>, channels),
       err |-> "nil"]

\* Submitter.RunEpoch(currentEpoch): what it fetched and what it submitted.
\* submits holds one element per call of s.submit.
SubmitterRunEpoch(currentEpochArg, order, results, sendErrs) ==
  LET got == GetPayload(order, results)
      st  == ExecuteWithRetry(sendErrs, pCfg.submitRetries)
  IN  [epoch |-> currentEpochArg,
       fetchEpoch |-> currentEpochArg + pCfg.epochOffset,
       results |-> results,
       outOfOrder |-> \E a \in 1..(Len(order) - 1) : order[a] > order[a + 1],
       submits |-> IF got.err = "nil"
                     THEN << [payload |-> got.payload, ok |-> st.Success,
                              attempts |-> st.calls] >>
                     ELSE <<>>]

\* Mutant of RunExit: the stop epoch is published instead of the epoch run.
RunExitPublishesStop ==
  /\ rPc = "loop"
  /\ rEpoch >= stopAfterEpoch
  /\ lastEpoch' = Append(lastEpoch, stopAfterEpoch)
  /\ rPc' = "stopped"
  /\ UNCHANGED <<pCfg, rEpoch, stopAfterEpoch, pRun, inFlight, stopOffered>>

\* if epoch >= stopAfterEpoch { lastEpoch <- epoch; break }
RunExit ==
  /\ rPc = "loop"
  /\ rEpoch >= stopAfterEpoch
  /\ lastEpoch' = Append(lastEpoch, rEpoch)
  /\ rPc' = "stopped"
  /\ UNCHANGED <<pCfg, rEpoch, stopAfterEpoch, pRun, inFlight, stopOffered>>

\* The owner of stopAt reaches its send and waits there for Run.
StopOffer ==
  /\ rPc # "new"
  /\ ~stopOffered
  /\ Len(lastEpoch) < MaxStopSignals
  /\ stopOffered' = TRUE
  /\ UNCHANGED <<rPc, pCfg, rEpoch, stopAfterEpoch, lastEpoch, pRun, inFlight>>

\* case stopAfterEpoch = <-stopAt: lastEpoch <- epoch
RunStopAt(v) ==
  /\ rPc = "loop"
  /\ rEpoch < stopAfterEpoch
  /\ stopOffered
  /\ stopOffered' = FALSE
  /\ stopAfterEpoch' = v
  /\ lastEpoch' = Append(lastEpoch, rEpoch)
  /\ UNCHANGED <<rPc, pCfg, rEpoch, pRun, inFlight>>

\* Mutant of RunTick: RunEpoch is started in a goroutine of its own.
RunTickSpawns(e, order, results, sendErrs) ==
  /\ rPc = "loop"
  /\ rEpoch < stopAfterEpoch
  /\ e > rEpoch
  /\ rEpoch' = e
  /\ pRun' = SubmitterRunEpoch(e, order, results, sendErrs)
  /\ inFlight' = inFlight \cup {e}
  /\ UNCHANGED <<rPc, pCfg, stopAfterEpoch, lastEpoch, stopOffered>>

\* case epoch = <-ticker.C: r.RunEpoch(epoch) is called
RunTick(e, order, results, sendErrs) ==
  /\ rPc = "loop"
  /\ rEpoch < stopAfterEpoch
  /\ e > rEpoch
  /\ rEpoch' = e
  /\ pRun' = SubmitterRunEpoch(e, order, results, sendErrs)
  /\ inFlight' = inFlight \cup {e}
  /\ rPc' = "inEpoch"
  /\ UNCHANGED <<pCfg, stopAfterEpoch, lastEpoch, stopOffered>>

\* r.RunEpoch(e) returns; when Run called it, Run goes back to the top of
\* its loop.
RunEpochReturns(e) ==
  /\ e \in inFlight
  /\ inFlight' = inFlight \ {e}
  /\ rPc' = IF rPc = "inEpoch" THEN "loop" ELSE rPc
  /\ pRun' = [epoch |-> pRun.epoch]
  /\ UNCHANGED <<pCfg, rEpoch, stopAfterEpoch, lastEpoch, stopOffered>>

RunInit ==
  /\ rPc = "new"
  /\ pCfg = NONE
  /\ rEpoch = 0
  /\ stopAfterEpoch = MaxInt64
  /\ lastEpoch = <<>>
  /\ pRun = NONE
  /\ inFlight = {}
  /\ stopOffered = FALSE

\* The epoch indices the ticker of Run delivers.
RunEpochs == 1..MaxRunEpoch

\* The values a caller sends on stopAt.
StopValues == 0..MaxRunEpoch

\* What the attempts of the plain submitter's submission can meet.
RunSendErrs ==
  [1..(IF pCfg = NONE THEN 1 ELSE pCfg.submitRetries) -> BOOLEAN]

RunNext ==
  \/ \E r \in 0..(MaxRetriesCfg + 1), off \in {-1, 0} :
       newSubmitter(r, off) /\ UNCHANGED <<storeVars, regVars, sigVars, harnessVars, encVars>>
  \/ RunExit /\ UNCHANGED <<storeVars, regVars, sigVars, harnessVars, encVars>>
  \/ StopOffer /\ UNCHANGED <<storeVars, regVars, sigVars, harnessVars, encVars>>
  \/ \E v \in StopValues : RunStopAt(v) /\ UNCHANGED <<storeVars, regVars, sigVars, harnessVars, encVars>>
  \/ \E e \in RunEpochs : RunEpochReturns(e) /\ UNCHANGED <<storeVars, regVars, sigVars, harnessVars, encVars>>
  \/ \E e \in RunEpochs, order \in Orders(SubProtocols) :
       \E results \in [SubProtocols -> FetchResults], sendErrs \in RunSendErrs :
         RunTick(e, order, results, sendErrs)
           /\ UNCHANGED <<storeVars, regVars, sigVars, harnessVars, encVars>>

(***************************************************************************)
(* The retry harness, step by step: the goroutine of ExecuteWithRetry and  *)
(* the caller receiving from the channel it returns                        *)
(***************************************************************************)

\* ExecuteWithRetry(f, maxRetries): out is made and the goroutine started.
HarnessStart(maxRetries) ==
  /\ hPc \in {"idle", "returned"}
  /\ hN < MaxHarnessCalls
  /\ hN' = hN + 1
  /\ hMax' = maxRetries
  /\ hRi' = 0
  /\ hCalls' = 0
  /\ hSucceeded' = FALSE
  /\ hOut' = <<>>
  /\ hPc' = "loop"

\* Mutant of HarnessAttempt: the return after the Success is sent is
\* missing.
HarnessAttemptNoReturn(err) ==
  /\ hPc = "loop"
  /\ hRi < hMax
  /\ hCalls' = hCalls + 1
  /\ hSucceeded' = (hSucceeded \/ ~err)
  /\ hOut' = IF err THEN hOut
                    ELSE Append(hOut, [Success |-> TRUE, Message |-> ""])
  /\ hPc' = "sleep"
  /\ UNCHANGED <<hN, hMax, hRi>>

\* One pass of the loop with ri < maxRetries: err := f(); on nil the
\* goroutine goes to send the Success, otherwise it logs and sleeps.
HarnessAttempt(err) ==
  /\ hPc = "loop"
  /\ hRi < hMax
  /\ hCalls' = hCalls + 1
  /\ hSucceeded' = (hSucceeded \/ ~err)
  /\ hPc' = IF err THEN "sleep" ELSE "sendSuccess"
  /\ UNCHANGED <<hN, hMax, hRi, hOut>>

\* time.Sleep(TxRetryInterval); ri++
HarnessSleep ==
  /\ hPc = "sleep"
  /\ hRi' = hRi + 1
  /\ hPc' = "loop"
  /\ UNCHANGED <<hN, hMax, hCalls, hSucceeded, hOut>>

\* The loop condition ri < maxRetries fails.
HarnessExhausted ==
  /\ hPc = "loop"
  /\ ~(hRi < hMax)
  /\ hPc' = "sendFailure"
  /\ UNCHANGED <<hN, hMax, hRi, hCalls, hSucceeded, hOut>>

\* out <- ExecuteStatus{...} meets the caller's receive; the goroutine
\* returns.
HarnessDeliver ==
  /\ hPc \in {"sendSuccess", "sendFailure"}
  /\ hOut' = Append(hOut,
                    IF hPc = "sendSuccess"
                      THEN [Success |-> TRUE, Message |-> ""]
                      ELSE [Success |-> FALSE,
                            Message |-> "max retries reached"])
  /\ hPc' = "returned"
  /\ UNCHANGED <<hN, hMax, hRi, hCalls, hSucceeded>>

HarnessInit ==
  /\ hPc = "idle"
  /\ hN = 0
  /\ hMax = 0
  /\ hRi = 0
  /\ hCalls = 0
  /\ hSucceeded = FALSE
  /\ hOut = <<>>

HarnessNext ==
  \/ \E maxRetries \in 0..MaxHarnessRetries :
       HarnessStart(maxRetries)
         /\ UNCHANGED <<storeVars, regVars, sigVars, runVars, encVars>>
  \/ \E err \in BOOLEAN :
       HarnessAttempt(err) /\ UNCHANGED <<storeVars, regVars, sigVars, runVars, encVars>>
  \/ HarnessSleep /\ UNCHANGED <<storeVars, regVars, sigVars, runVars, encVars>>
  \/ HarnessExhausted /\ UNCHANGED <<storeVars, regVars, sigVars, runVars, encVars>>
  \/ HarnessDeliver /\ UNCHANGED <<storeVars, regVars, sigVars, runVars, encVars>>

(***************************************************************************)
(* The encoding of a signing policy: signingPolicy.Encode and the decoding *)
(* of its bytes by the canonical layout                                    *)
(***************************************************************************)

\* common.Address: 20 bytes.
EncAddrs == { [i \in 1..20 |-> (k * i) % 256] : k \in {3, 77} }

\* The voters of the policies encoded: up to MaxVoters addresses.
EncVoterLists ==
  UNION { [1..n -> EncAddrs] : n \in 0..MaxVoters }

\* The policies offered to Encode: reward epoch ids inside and outside the
\* range of a uint32, seeds of either sign and of one to three bytes,
\* weights parallel to the voters.
EncPolicies ==
  { [rewardEpochId |-> e, startVotingRoundId |-> s, threshold |-> t,
     seed |-> sd, voters |-> vs, weights |-> ws] :
       e \in {-1, 0, 1, 196615}, s \in {0, 65538}, t \in {1, 513},
       sd \in {-1, 0, 1, 256, 65537},
       vs \in EncVoterLists, ws \in UNION { [1..n -> {1, 258}] : n \in 0..MaxVoters } }

\* shared.Uint16toBytes(uint16(x)): the two bytes of x mod 2^16, the high
\* byte first.
Uint16toBytes(x) == << (x \div 256) % 256, x % 256 >>

\* shared.Uint32toBytes(uint32(x)): the four bytes of x mod 2^32, the high
\* byte first.
Uint32toBytes(x) ==
  << (x \div 16777216) % 256, (x \div 65536) % 256, (x \div 256) % 256,
     x % 256 >>

\* nat.bytes: the big-endian bytes of n >= 0 without leading zeros.
RECURSIVE NatBytes(_)
NatBytes(n) == IF n = 0 THEN <<>> ELSE Append(NatBytes(n \div 256), n % 256)

\* (*big.Int).Bytes(): the bytes of the absolute value.
BigIntBytes(x) == NatBytes(IF x < 0 THEN -x ELSE x)

\* Mutant of EncodeVoters: the weight is written before the address.
RECURSIVE EncodeVotersWeightFirst(_, _, _, _)
EncodeVotersWeightFirst(s, i, size, buffer) ==
  IF i >= size THEN buffer
  ELSE EncodeVotersWeightFirst(s, i + 1, size,
         buffer \o Uint16toBytes(s.weights[i + 1]) \o s.voters[i + 1])

\* for i := 0; i < size; i++ { write voters[i].Bytes(); write weightBytes }
RECURSIVE EncodeVoters(_, _, _, _)
EncodeVoters(s, i, size, buffer) ==
  IF i >= size THEN buffer
  ELSE EncodeVoters(s, i + 1, size,
         buffer \o s.voters[i + 1] \o Uint16toBytes(s.weights[i + 1]))

\* signingPolicy.Encode()
Encode(s) ==
  LET size == Len(s.voters)
      sizeBytes == Uint16toBytes(size)
      epochBytes == Uint32toBytes(s.rewardEpochId)
      startVotingRoundBytes == Uint32toBytes(s.startVotingRoundId)
      thresholdBytes == Uint16toBytes(s.threshold)
  IN  EncodeVoters(s, 0, size,
        sizeBytes \o epochBytes \o startVotingRoundBytes \o thresholdBytes
          \o BigIntBytes(s.seed))

\* The unsigned integer a run of bytes stands for, the high byte first.
RECURSIVE BytesToNat(_)
BytesToNat(b) ==
  IF Len(b) = 0 THEN 0
  ELSE BytesToNat(SubSeq(b, 1, Len(b) - 1)) * 256 + b[Len(b)]

\* A u32 read from four bytes, kept as its two 16-bit halves.
ReadU32(b) == [hi |-> b[1] * 256 + b[2], lo |-> b[3] * 256 + b[4]]

\* Whether the u32 read is the integer x.
U32Is(r, x) == x >= 0 /\ x \div 65536 = r.hi /\ x % 65536 = r.lo

\* Decoding by the canonical layout u16(|voters|) || u32 || u32 || u16 ||
\* seed_bytes || (addr20 || u16)*: the seed bytes are what lies between the
\* 12 bytes of the fixed fields and the 22 bytes of each voter.
Decode(b) ==
  LET count == BytesToNat(SubSeq(b, 1, 2))
      seedLen == Len(b) - HeaderLen - VoterLen * count
      at(k) == HeaderLen + seedLen + VoterLen * (k - 1)
  IN  IF seedLen < 0 THEN [wellFormed |-> FALSE]
      ELSE [wellFormed |-> TRUE,
            count |-> count,
            rewardEpochId |-> ReadU32(SubSeq(b, 3, 6)),
            startVotingRoundId |-> ReadU32(SubSeq(b, 7, 10)),
            threshold |-> BytesToNat(SubSeq(b, 11, 12)),
            seed |-> BytesToNat(SubSeq(b, HeaderLen + 1, HeaderLen + seedLen)),
            voters |-> [k \in 1..count |-> SubSeq(b, at(k) + 1, at(k) + 20)],
            weights |-> [k \in 1..count |->
                           BytesToNat(SubSeq(b, at(k) + 21, at(k) + 22))]]

\* A policy is handed to Encode.
EncodeCall(p) ==
  /\ ePc = "idle"
  /\ ePolicy' = p
  /\ eBytes' = Encode(p)
  /\ ePc' = "encoded"
  /\ UNCHANGED eDecoded

\* The bytes are decoded.
DecodeCall ==
  /\ ePc = "encoded"
  /\ eDecoded' = Decode(eBytes)
  /\ ePc' = "decoded"
  /\ UNCHANGED <<ePolicy, eBytes>>

\* The bytes and what they decoded to are dropped.
EncodeDone ==
  /\ ePc = "decoded"
  /\ ePc' = "idle"
  /\ ePolicy' = NONE
  /\ eBytes' = <<>>
  /\ eDecoded' = NONE

EncInit ==
  /\ ePc = "idle"
  /\ ePolicy = NONE
  /\ eBytes = <<>>
  /\ eDecoded = NONE

EncNext ==
  \/ \E p \in { q \in EncPolicies : Len(q.voters) = Len(q.weights) } :
       EncodeCall(p) /\ UNCHANGED <<storeVars, regVars, sigVars, runVars, harnessVars>>
  \/ DecodeCall /\ UNCHANGED <<storeVars, regVars, sigVars, runVars, harnessVars>>
  \/ EncodeDone /\ UNCHANGED <<storeVars, regVars, sigVars, runVars, harnessVars>>

(***************************************************************************)
(* Specifications                                                          *)
(***************************************************************************)

Init ==
  StoreInit /\ RegInit /\ SigInit /\ RunInit /\ HarnessInit /\ EncInit

StoreSpec == Init /\ [][StoreNext]_vars

RegSpec == Init /\ [][RegNext]_vars

\* RunContext when it is scheduled and its chain calls return: a ready case
\* of the select is taken, a chain call yields its result, an event on offer
\* is received. Nothing makes the chain emit an event.
RegFairSpec ==
  /\ RegSpec
  /\ WF_regVars(AwaitCancelled)
  /\ WF_regVars(VerifyEpochStep)
  /\ WF_regVars(RegisterStep)
  /\ WF_regVars(AwaitSPI)
  /\ WF_regVars(SignPolicyStep)

SigSpec == Init /\ [][SigNext]_vars

RunSpec == Init /\ [][RunNext]_vars

EncSpec == Init /\ [][EncNext]_vars

\* The signature submitter when every fetch and every submission yields a
\* result: a round that has been started completes, and so does the return.
SigFairSpec ==
  SigSpec /\ WF_sigVars(SigRoundStep) /\ WF_sigVars(SigRunEpochReturns)

HarnessSpec == Init /\ [][HarnessNext]_vars

(***************************************************************************)
(* Claims about the signing-policy store                                   *)
(***************************************************************************)

\* C1: in every reachable store state the stored list is increasing in
\* rewardEpochId with step exactly +1 between neighbours and non-decreasing
\* in startVotingRoundId.
C1_ListSorted ==
  \A i \in 1..(Len(spList) - 1) :
    /\ spList[i + 1].rewardEpochId = spList[i].rewardEpochId + 1
    /\ spList[i].startVotingRoundId <= spList[i + 1].startVotingRoundId

\* A store of two policies, built by an Add after a removal had dropped the
\* first epochs.
C1_Witness ==
  /\ storeOp.op = "Add"
  /\ ~storeOp.err
  /\ Len(spList) >= 2
  /\ spList[1].rewardEpochId > 0
  /\ spList[1].startVotingRoundId < spList[2].startVotingRoundId

\* Indices of the stored policies that start at or before voting round v.
StartedBy(v) == { i \in 1..Len(spList) : spList[i].startVotingRoundId <= v }

\* C2 as stated: GetForVotingRound(v) returns the unique stored policy with
\* the largest startVotingRoundId <= v, and nil exactly when there is none.
C2_Original ==
  storeOp.op = "Get" =>
    LET v == storeOp.arg
        r == storeOp.ret
    IN  /\ (r = NONE) <=> (StartedBy(v) = {})
        /\ r # NONE =>
             \E i \in StartedBy(v) :
               /\ spList[i] = r
               /\ \A j \in StartedBy(v) \ {i} :
                    spList[j].startVotingRoundId < spList[i].startVotingRoundId

\* C2 as amended: GetForVotingRound(v) returns a stored policy whose
\* startVotingRoundId is the largest one <= v, and nil exactly when no stored
\* policy has startVotingRoundId <= v. The policy is the only one with that
\* start when the stored starts differ; among policies sharing that start it
\* is the first in list order when v equals the start and the last when v is
\* larger.
C2_Amended ==
  storeOp.op = "Get" =>
    LET v == storeOp.arg
        r == storeOp.ret
    IN  /\ (r = NONE) <=> (StartedBy(v) = {})
        /\ r # NONE =>
             \E i \in StartedBy(v) :
               /\ spList[i] = r
               /\ \A j \in StartedBy(v) :
                    /\ spList[j].startVotingRoundId <= spList[i].startVotingRoundId
                    /\ spList[j].startVotingRoundId = spList[i].startVotingRoundId
                         => IF r.startVotingRoundId = v THEN i <= j ELSE j <= i

\* A lookup answered from a store in which two policies share the largest
\* start <= v.
C2_Witness ==
  /\ storeOp.op = "Get"
  /\ storeOp.ret # NONE
  /\ \E i, j \in StartedBy(storeOp.arg) :
       /\ i < j
       /\ spList[i].startVotingRoundId = storeOp.ret.startVotingRoundId
       /\ spList[j].startVotingRoundId = storeOp.ret.startVotingRoundId

\* C3: after RemoveByVotingRound(v) no stored policy has a start <= v, the
\* policies that remain are the former ones with a start > v in their former
\* order, and the returned list is, in order, the rewardEpochIds of the
\* removed policies.
C3_Remove ==
  [][ storeOp'.op = "Remove" =>
        LET v    == storeOp'.arg
            keep == SelectSeq(spList, LAMBDA p : p.startVotingRoundId > v)
            gone == SelectSeq(spList, LAMBDA p : p.startVotingRoundId <= v)
        IN  /\ \A i \in 1..Len(spList') : spList'[i].startVotingRoundId > v
            /\ spList' = keep
            /\ storeOp'.ret = [i \in 1..Len(gone) |-> gone[i].rewardEpochId]
    ]_storeVars

\* A removal that dropped a policy and kept a later one.
C3_Witness ==
  /\ storeOp.op = "Remove"
  /\ Len(storeOp.ret) >= 1
  /\ Len(spList) >= 1

\* C4: when Add rejects a policy (the store is non-empty and the policy's
\* rewardEpochId is not last.rewardEpochId + 1, or its start is smaller than
\* the last start) it returns an error and leaves list and voter map as they
\* were.
C4_AddRejectFrame ==
  [][ \A sp \in Policies :
        ( /\ Add(sp)
          /\ Len(spList) > 0
          /\ \/ sp.rewardEpochId # spList[Len(spList)].rewardEpochId + 1
             \/ sp.startVotingRoundId < spList[Len(spList)].startVotingRoundId )
        => /\ storeOp'.op = "Add"
           /\ storeOp'.err
           /\ spList' = spList
           /\ voterMap' = voterMap
    ]_storeVars

\* A rejected Add on a store that holds policies and their voter entries.
C4_Witness ==
  /\ storeOp.op = "Add"
  /\ storeOp.err
  /\ Len(spList) >= 2
  /\ \E e \in DOMAIN voterMap : DOMAIN voterMap[e] = Addrs

\* Index (0-based, as in the code) of the first occurrence of addr in voters.
FirstIndex(voters, addr) ==
  (CHOOSE i \in 1..Len(voters) :
     /\ voters[i] = addr
     /\ \A j \in 1..(i - 1) : voters[j] # addr) - 1

\* C5: after an accepted Add(sp), for every address occurring in sp.voters
\* the voter map of sp's epoch holds the index of the address's first
\* occurrence and the weight at that index.
C5_FirstWins ==
  (storeOp.op = "Add" /\ ~storeOp.err) =>
    LET sp == spList[Len(spList)]
    IN  /\ sp.rewardEpochId \in DOMAIN voterMap
        /\ \A k \in 1..Len(sp.voters) :
             LET addr == sp.voters[k]
                 f    == FirstIndex(sp.voters, addr)
             IN  /\ addr \in DOMAIN voterMap[sp.rewardEpochId]
                 /\ voterMap[sp.rewardEpochId][addr] =
                      [index |-> f, weight |-> sp.weights[f + 1]]

\* An accepted Add of a policy in which an address occurs twice, with other
\* addresses in between.
C5_Witness ==
  /\ storeOp.op = "Add"
  /\ ~storeOp.err
  /\ spList[Len(spList)].voters = <<"b", "a", "b">>
  /\ Len(spList) >= 2

(***************************************************************************)
(* Claims about the registration pipeline                                  *)
(***************************************************************************)

StepOrder == <<"vpb", "verify", "register", "spi", "sign">>

\* C6: the steps of an iteration run one at a time in the order verify,
\* register, await SigningPolicyInitialized, sign; each starts only after
\* the one before it succeeded in the same iteration, so signNewSigningPolicy
\* is called only after the epoch check passed, registerVoter succeeded and
\* a SigningPolicyInitialized event was received.
C6_Sequential ==
  /\ Len(iter) <= Len(StepOrder)
  /\ \A k \in 1..Len(iter) : iter[k].step = StepOrder[k]
  /\ \A k \in 1..(Len(iter) - 1) : iter[k].ok
  /\ pc = "VerifyEpoch" => Len(iter) = 1
  /\ pc = "Register" => Len(iter) = 2 /\ iter[2].ok
  /\ pc = "AwaitSPI" => Len(iter) = 3 /\ iter[3].ok
  /\ pc = "Sign" => Len(iter) = 4 /\ signingPolicy # NONE

\* An iteration that ran all its steps and signed.
C6_Witness ==
  /\ Len(iter) = 5
  /\ iter[5].step = "sign"
  /\ iter[5].ok

\* C7: if the view returns a value >= the event's reward epoch id, no
\* registerVoter and no signNewSigningPolicy call is made for that event and
\* the pipeline is back at waiting for the next event.
C7_StaleEpochSkipped ==
  (Len(iter) >= 2 /\ iter[2].callOk /\ iter[2].current >= iter[1].epoch) =>
    /\ Len(iter) = 2
    /\ pc \in {"AwaitVPB", "Returned"}

\* The view returned the very epoch of the event and the iteration stopped.
C7_Witness ==
  /\ Len(iter) = 2
  /\ iter[2].callOk
  /\ iter[2].current = iter[1].epoch
  /\ pc = "AwaitVPB"

\* C8 as stated: after a skipped iteration no cursor has advanced and the
\* tailer delivers the same VotePowerBlockSelected event again: the event is
\* the one the tailer is sending, or it is among the logs the tailer's next
\* poll fetches.
C8_Original ==
  (pc = "AwaitVPB" /\ Skipped(iter)) =>
    LET fetched == FetchLogsByAddressAndTopic0("VPB", eventRangeStart, now)
    IN  \/ tData = powerBlockData
        \/ \E k \in 1..Len(fetched) : fetched[k] = powerBlockData

\* C8 as amended: a skipped iteration returns the loop to AwaitVPB and the
\* skip moves no cursor; the tailer's cursor was moved to the event's
\* timestamp when the event was delivered, so the event is not delivered
\* again: the next event the pipeline receives carries a later timestamp.
C8_Amended ==
  [][ /\ (pc \in {"VerifyEpoch", "Register", "Sign"} /\ Skipped(iter'))
           => /\ pc' = "AwaitVPB"
              /\ UNCHANGED <<eventRangeStart, tPc, tData>>
              /\ eventRangeStart >= powerBlockData.Timestamp
      /\ (pc = "AwaitVPB" /\ pc' = "VerifyEpoch" /\ Skipped(iter))
           => /\ powerBlockData'.Timestamp > powerBlockData.Timestamp
              /\ eventRangeStart' = powerBlockData'.Timestamp
    ]_vars

\* The pipeline received an event after a skipped iteration.
C8_Witness ==
  /\ Len(iter) >= 1
  /\ iter[1].afterSkip
  /\ pc = "VerifyEpoch"

\* The error texts that contain "new signing policy already signed".
AlreadySignedTexts ==
  { <<"reverted", "already", "signed">>, <<"already", "signed", "by", "voter">> }

AlreadySigned(o) == o.kind = "callError" /\ o.text \in AlreadySignedTexts

FailedAttempt(o) ==
  \/ o.kind \in {"signError", "mineError"}
  \/ o.kind = "callError" /\ o.text \notin AlreadySignedTexts

\* C9: a call error containing "new signing policy already signed" makes
\* SignNewSigningPolicy yield Success without waiting for mining and without
\* another attempt; any other error is a failed attempt, and with the
\* attempts exhausted the result is Failure and the iteration is skipped.
C9_AlreadySigned ==
  \A k \in 1..Len(iter) :
    iter[k].step = "sign" =>
      LET r    == iter[k]
          n    == Len(r.attempts)
          last == r.attempts[n]
      IN  /\ n >= 1
          /\ n <= MaxTxSendRetries
          /\ \A j \in 1..(n - 1) : FailedAttempt(r.attempts[j])
          /\ AlreadySigned(last) => r.ok /\ ~r.waited[n]
          /\ FailedAttempt(last) =>
               ~r.ok /\ n = MaxTxSendRetries /\ Skipped(iter)
          /\ r.ok <=> ~FailedAttempt(last)
          /\ pc \in {"AwaitVPB", "VerifyEpoch", "Returned"}

\* The call failed with "... already signed" and the iteration counts as
\* signed.
C9_Witness ==
  /\ Len(iter) = 5
  /\ iter[5].ok
  /\ iter[5].attempts[Len(iter[5].attempts)] =
       [kind |-> "callError", text |-> <<"reverted", "already", "signed">>]

(***************************************************************************)
(* Claims about the signature submitter                                    *)
(***************************************************************************)

\* C10: if the signature submission of a round fails, the outstanding set is
\* put back to what it was at the start of that round, and the next round
\* starts from, and fetches, exactly that set.
C10_FailedSubmitRestores ==
  [][ round' = round + 1 =>
        /\ (lastRound'.submitted /\ ~lastRound'.ok)
             => protocolsToSend' = lastRound'.before
        /\ (lastRound # NONE /\ lastRound.submitted /\ ~lastRound.ok)
             => /\ lastRound'.before = lastRound.before
                /\ lastRound'.fetched = lastRound.before
    ]_vars

\* A round that followed a failed submission and got data for every
\* protocol again.
C10_Witness ==
  /\ lastRound # NONE
  /\ lastRound.afterFailed
  /\ lastRound.before = SubProtocols
  /\ Len(lastRound.buffer) = NumProtocols

\* The sub-protocols whose data a buffer holds.
InBuffer(buffer) ==
  {i \in SubProtocols :
     \E k \in 1..Len(buffer) : buffer[k].data = ProviderData(i)}

\* The sub-protocols the submissions of txs hold, the failed ones too.
InAny(submissions) ==
  UNION {InBuffer(submissions[k].buffer) : k \in 1..Len(submissions)}

\* The sub-protocols the successful submissions of txs hold.
InSuccessful(submissions) ==
  UNION {InBuffer(submissions[k].buffer) :
           k \in {j \in 1..Len(submissions) : submissions[j].ok}}

\* The submissions of the tick made before its last completed round.
TxsBeforeLastRound ==
  IF lastRound.submitted THEN SubSeq(txs, 1, Len(txs) - 1) ELSE txs

\* C11 as stated: if all N fetches succeed in round 1 of a tick (and every
\* entry is written), the tick sends exactly one transaction and no second
\* round is started.
C11_Original ==
  (lastRound # NONE /\ lastRound.first.allFetched
     /\ lastRound.first.allWritten)
    => /\ Len(txs) = 1
       /\ lastRound.round = 0

\* C11 amended: if all N fetches succeed and all N entries are written in
\* round 1, that round submits one buffer with all N entries; if the
\* submission succeeds, it is the only transaction of the tick, the
\* outstanding set is empty and no second round is started; if it fails and
\* more rounds are allowed, a second round is run before RunEpoch returns.
C11_Amended ==
  (lastRound # NONE /\ lastRound.first.allFetched
     /\ lastRound.first.allWritten)
    => /\ Len(txs) >= 1
       /\ InBuffer(txs[1].buffer) = SubProtocols
       /\ Len(txs[1].buffer) = NumProtocols
       /\ txs[1].ok = lastRound.first.ok
       /\ lastRound.first.ok
            => /\ Len(txs) = 1
               /\ lastRound.round = 0
               /\ protocolsToSend = {}
       /\ (~lastRound.first.ok /\ sCfg.maxRounds >= 2 /\ sPc = "idle")
            => lastRound.round >= 1

\* RunEpoch has returned after one round that fetched, wrote and submitted
\* everything, although more rounds were allowed.
C11_Witness ==
  /\ sPc = "idle"
  /\ lastRound # NONE
  /\ lastRound.first.allFetched
  /\ lastRound.first.allWritten
  /\ lastRound.first.ok
  /\ sCfg.maxRounds >= 2
  /\ Len(txs) = 1

\* C12 as stated: a protocol included in a successful transaction is not
\* outstanding and is not fetched again in the tick, and a later round
\* fetches exactly the protocols whose fetch or entry write failed in every
\* round so far.
C12_Original ==
  (lastRound # NONE /\ lastRound.round >= 1)
    => /\ InSuccessful(TxsBeforeLastRound) \cap lastRound.fetched = {}
       /\ InSuccessful(txs) \cap protocolsToSend = {}
       /\ lastRound.fetched = SubProtocols \ InAny(TxsBeforeLastRound)

\* C12 amended: a protocol included in a successful transaction is not
\* outstanding and is not fetched again in the tick, and a later round
\* fetches exactly the protocols that no successful transaction of the tick
\* holds yet.
C12_Amended ==
  /\ InSuccessful(txs) \cap protocolsToSend = {}
  /\ (lastRound # NONE /\ lastRound.round >= 1)
       => /\ InSuccessful(TxsBeforeLastRound) \cap lastRound.fetched = {}
          /\ lastRound.fetched = SubProtocols \ InSuccessful(TxsBeforeLastRound)

\* Two transactions in a tick: the first holds some protocols and succeeds,
\* the second round fetches only the others and succeeds too.
C12_Witness ==
  /\ lastRound # NONE
  /\ lastRound.round = 1
  /\ Len(txs) = 2
  /\ txs[1].ok /\ txs[2].ok
  /\ lastRound.fetched # {}
  /\ lastRound.fetched = SubProtocols \ InBuffer(txs[1].buffer)
  /\ protocolsToSend = {}

\* C13: the epoch field of every entry written in a tick with epoch index e
\* is the target epoch e-1, the epoch the provider was asked for.
C13_EpochField ==
  \A k \in 1..Len(txs) :
    \A n \in 1..Len(txs[k].buffer) :
      /\ txs[k].buffer[n].epoch = Uint32(currentEpoch - 1)
      /\ txs[k].buffer[n].epoch = Uint32(lastRound.fetchEpoch)

\* C16: the entries of every submitted buffer are in increasing
\* sub-protocol index order, whatever order the fetches completed in.
C16_EntriesInOrder ==
  \A k \in 1..Len(txs) :
    LET buffer == txs[k].buffer
    IN  \A a, b \in 1..Len(buffer) :
          a < b => buffer[a].data[2] < buffer[b].data[2]

\* A round whose fetches completed out of index order and whose buffer
\* holds several entries.
C16_Witness ==
  /\ lastRound # NONE
  /\ lastRound.outOfOrder
  /\ lastRound.submitted
  /\ Len(lastRound.buffer) >= 2
  /\ txs[Len(txs)].buffer = lastRound.buffer

(***************************************************************************)
(* Claims about the plain submitter and Run                                *)
(***************************************************************************)

\* The sub-protocols whose fetch ended with status "OK" in the last RunEpoch.
OkProtocols == {i \in SubProtocols : pRun.results[i] = "OK"}

\* C14: a plain submitter calls submit exactly once per tick, whatever
\* number of its fetches failed; when all of them fail the payload is the
\* selector alone.
C14_OneSubmission ==
  rPc = "inEpoch"
    => /\ Len(pRun.submits) = 1
       /\ pRun.submits[1].attempts \in 1..pCfg.submitRetries
       /\ OkProtocols = {} => pRun.submits[1].payload = <<"selector">>

\* A tick in which every fetch failed or answered with another status.
C14_Witness ==
  /\ rPc = "inEpoch"
  /\ OkProtocols = {}
  /\ \E i \in SubProtocols : pRun.results[i] = "fail"
  /\ Len(pRun.submits) = 1
  /\ pRun.submits[1].payload = <<"selector">>

\* C15: the payload a plain submitter submits is the selector followed by
\* the data of exactly the sub-protocols whose fetch succeeded with status
\* "OK", in sub-protocol order whatever order the fetches completed in; the
\* other protocols add nothing and do not stop the batch.
C15_Payload ==
  rPc = "inEpoch"
    => \A k \in 1..Len(pRun.submits) :
         LET payload == pRun.submits[k].payload
         IN  /\ Len(payload) = 1 + Cardinality(OkProtocols)
             /\ payload[1] = "selector"
             /\ \A i \in OkProtocols :
                  payload[1 + Cardinality({j \in OkProtocols : j <= i})]
                    = ProviderData(i)

\* Protocol 1 answers first, with status "ERR"; protocol 0 answers "OK":
\* the payload is the selector and the data of protocol 0.
C15_Witness ==
  /\ rPc = "inEpoch"
  /\ pRun.outOfOrder
  /\ pRun.results[0] = "OK"
  /\ pRun.results[1] = "ERR"
  /\ Len(pRun.submits) = 1
  /\ pRun.submits[1].payload[2] = ProviderData(0)

\* The epoch of the last RunEpoch executed, 0 when none was.
LastRunEpoch == IF pRun = NONE THEN 0 ELSE pRun.epoch

\* C20 as stated: when Run has exited, the last value it sent on lastEpoch
\* is the epoch of the last RunEpoch it executed.
C20_Original ==
  rPc = "stopped"
    => /\ pRun # NONE
       /\ lastEpoch[Len(lastEpoch)] = pRun.epoch

\* C20 amended: every value Run sends on lastEpoch, on receiving a stop
\* signal and on exit, is the epoch of the last RunEpoch executed until
\* then, and 0 when no RunEpoch was executed.
C20_Amended ==
  [][ lastEpoch' # lastEpoch
        => /\ lastEpoch' = Append(lastEpoch, LastRunEpoch)
           /\ LastRunEpoch' = LastRunEpoch
    ]_vars

\* Run received a stop signal, ran a later epoch and exited.
C20_Witness ==
  /\ rPc = "stopped"
  /\ pRun # NONE
  /\ Len(lastEpoch) = 2
  /\ lastEpoch[1] < lastEpoch[2]
  /\ lastEpoch[2] = pRun.epoch
  /\ pRun.epoch > stopAfterEpoch

(***************************************************************************)
(* Claims about the retry harness and the tailer's channel                 *)
(***************************************************************************)

\* C17: for every maxRetries >= 0, ExecuteWithRetry invokes f at least once
\* and at most max(1, maxRetries) times, and never again after an
\* invocation has succeeded.
C17_AttemptCount ==
  /\ hCalls <= Max(1, hMax)
  /\ hPc \in {"sendSuccess", "sendFailure", "returned"} => hCalls >= 1
  /\ hSucceeded => hPc \in {"sendSuccess", "returned"}

\* C18: every call of ExecuteWithRetry delivers exactly one ExecuteStatus:
\* Success exactly when an invocation of f returned no error, otherwise
\* Failure with "max retries reached" once the loop is through; nothing is
\* delivered while the outcome is open and nothing after it is delivered.
C18_SingleDelivery ==
  /\ Len(hOut) <= 1
  /\ hPc \in {"loop", "sleep", "sendSuccess", "sendFailure"} => hOut = <<>>
  /\ hPc = "returned"
       => /\ Len(hOut) = 1
          /\ hOut[1].Success = hSucceeded
          /\ hOut[1].Success => hOut[1].Message = ""
          /\ ~hOut[1].Success
               => /\ hOut[1].Message = "max retries reached"
                  /\ hCalls = hMax
                  /\ hRi = hMax

\* A call whose first invocation failed and whose second succeeded.
C18_Witness ==
  /\ hPc = "returned"
  /\ hMax >= 3
  /\ hCalls = 2
  /\ hSucceeded
  /\ hOut = << [Success |-> TRUE, Message |-> ""] >>

\* The last VotePowerBlockSelected event the chain has emitted.
LatestVPB ==
  LET s == {k \in 1..Len(logs) : logs[k].kind = "VPB"}
  IN  logs[CHOOSE k \in s : \A j \in s : j <= k]

\* C19: the tailer is never blocked sending to a running registration loop
\* that is busy with an earlier event, and the event the loop receives when
\* it waits again is the latest one emitted.
C19_TailerNeverBlocks ==
  /\ [](tPc = "send" => pc \in {"AwaitVPB", "Returned"})
  /\ [][ (pc = "AwaitVPB" /\ pc' = "VerifyEpoch")
           => powerBlockData' = LatestVPB ]_vars

\* C27: in every state of the store reached by Add and RemoveByVotingRound
\* calls, the keys of voterMap are exactly the rewardEpochIds of the policies
\* in spList.
C27_VoterMapKeys ==
  DOMAIN voterMap = { spList[i].rewardEpochId : i \in 1..Len(spList) }

\* A RemoveByVotingRound call has removed a policy and left another one in
\* the store.
C27_Witness ==
  /\ storeOp.op = "Remove"
  /\ Len(storeOp.ret) >= 1
  /\ Len(spList) >= 1

\* C28 as stated: with two or more stored policies sharing a start s,
\* GetForVotingRound(v) returns, for every v >= s, the policy with the highest
\* rewardEpochId among those with startVotingRoundId <= v.
C28_HighestEpoch ==
  ( /\ storeOp.op = "Get"
    /\ \E i, j \in StartedBy(storeOp.arg) :
         /\ i # j
         /\ spList[i].startVotingRoundId = spList[j].startVotingRoundId )
  => /\ storeOp.ret # NONE
     /\ \E i \in StartedBy(storeOp.arg) :
          /\ storeOp.ret = spList[i]
          /\ \A j \in StartedBy(storeOp.arg) :
               spList[j].rewardEpochId <= spList[i].rewardEpochId

\* C22: when ctx is cancelled while RunContext waits at the select for a
\* vote power block event and the tailer has none to hand over, the only way
\* RunContext leaves the select is by returning, and once it has returned it
\* makes no chain call: no epoch check, no registerVoter and no
\* signNewSigningPolicy is added to what it has done.
C22_CancelAtAwaitVPB ==
  [][ /\ (pc = "AwaitVPB" /\ ctxDone /\ tPc # "send" /\ pc' # pc)
        => (pc' = "Returned" /\ iter' = iter)
      /\ pc = "Returned"
        => (pc' = "Returned" /\ iter' = iter /\ signingPolicy' = signingPolicy
            /\ powerBlockData' = powerBlockData) ]_vars

\* RunContext has returned on the cancellation while the tailer was at its
\* ticker with no vote power block log past its cursor.
C22_Witness ==
  /\ pc = "Returned"
  /\ ctxDone
  /\ tPc = "tick"
  /\ FetchLogsByAddressAndTopic0("VPB", eventRangeStart, now) = <<>>

\* C23: in each poll of the tailer, a fetch error, a parse error or an empty
\* result emits nothing and leaves the cursor alone; a non-empty result makes
\* the tailer send one event, the last log of the fetched batch, and when the
\* send completes the receiver holds that event and the cursor is the
\* timestamp the event carries. The cursor changes in no other step.
C23_PollFrame ==
  [][ LET fetched == FetchLogsByAddressAndTopic0("VPB", eventRangeStart, now)
      IN  /\ \A o \in PollOutcomes :
               (TailerPoll(o) /\ (o # "ok" \/ Len(fetched) = 0))
                 => /\ tPc' = "tick"
                    /\ eventRangeStart' = eventRangeStart
                    /\ powerBlockData' = powerBlockData
          /\ (TailerPoll("ok") /\ Len(fetched) > 0)
               => /\ tPc' = "send"
                  /\ tData' = fetched[Len(fetched)]
                  /\ eventRangeStart' = eventRangeStart
                  /\ powerBlockData' = powerBlockData
          /\ (tPc = "tick" /\ tPc' = "send")
               => (Len(fetched) > 0 /\ tData' = fetched[Len(fetched)])
          /\ (tPc = "send" /\ tPc' = "tick")
               => /\ powerBlockData' = tData
                  /\ eventRangeStart' = tData.Timestamp
          /\ eventRangeStart' # eventRangeStart
               => (tPc = "send" /\ tPc' = "tick")
          /\ powerBlockData' # powerBlockData
               => (tPc = "send" /\ tPc' = "tick") ]_vars

\* The tailer is sending the last log of a batch of two or more.
C23_Witness ==
  /\ tPc = "send"
  /\ LET batch == FetchLogsByAddressAndTopic0("VPB", eventRangeStart,
                                              tData.Timestamp)
     IN  /\ Len(batch) >= 2
         /\ tData = batch[Len(batch)]

\* C24: the signature submitter submits in a round exactly when the round
\* appended at least one entry; a round in which no fetch succeeded submits
\* nothing; so every transaction submitted carries at least one entry, and a
\* tick makes at most maxRounds submissions.
C24_NoEmptySubmission ==
  /\ \A k \in 1..Len(txs) : Len(txs[k].buffer) >= 1
  /\ sCfg # NONE => Len(txs) <= sCfg.maxRounds
  /\ Len(txs) <= round
  /\ lastRound # NONE =>
       /\ lastRound.submitted <=> Len(lastRound.buffer) >= 1
       /\ ~lastRound.anyFetched => ~lastRound.submitted
       /\ lastRound.submitted =>
            (txs # <<>> /\ txs[Len(txs)].buffer = lastRound.buffer)

\* A round after a submission in which no fetch succeeded: nothing was
\* submitted in it.
C24_Witness ==
  /\ lastRound # NONE
  /\ lastRound.round >= 1
  /\ ~lastRound.anyFetched
  /\ ~lastRound.submitted
  /\ Len(txs) >= 1

\* C25: when every fetch and every submission yields a result, a tick of the
\* signature submitter terminates: a round is run only while fewer than
\* maxRounds rounds have been run and something is outstanding, no round is
\* run once the outstanding set is empty, and the next tick starts from all
\* the sub-protocols whatever the tick before left outstanding.
C25_TickTerminates ==
  /\ [](sPc = "rounds" => round <= sCfg.maxRounds)
  /\ [][round' = round + 1
          => (round < sCfg.maxRounds /\ protocolsToSend # {})]_vars
  /\ [][(sPc = "rounds" /\ protocolsToSend = {})
          => (round' = round /\ txs' = txs)]_vars
  /\ [][(sPc = "idle" /\ sPc' = "rounds")
          => (protocolsToSend' = SubProtocols /\ round' = 0)]_vars
  /\ (sPc = "rounds") ~> (sPc = "idle")

\* The second tick has ended after maxRounds rounds with a sub-protocol still
\* outstanding.
C25_Witness ==
  /\ sPc = "idle"
  /\ ticks = 2
  /\ round = sCfg.maxRounds
  /\ round >= 2
  /\ protocolsToSend # {}

\* C21: within one submitter, at most one RunEpoch is in progress at a time,
\* and it is the one for the tick received last: a tick is received only
\* when no RunEpoch is in progress and its RunEpoch starts at once, so ticks
\* are processed in the order received; a stop signal offered while a
\* RunEpoch is in progress is acted on (stopAfterEpoch set, last epoch
\* published, loop left) only when that RunEpoch has returned.
C21_NoOverlap ==
  /\ [](Cardinality(inFlight) <= 1)
  /\ [](inFlight \subseteq {rEpoch})
  /\ [](rPc = "inEpoch" <=> inFlight # {})
  /\ [][rEpoch' # rEpoch
          => (rEpoch' > rEpoch /\ inFlight = {} /\ inFlight' = {rEpoch'})]_vars
  /\ [][(\/ stopAfterEpoch' # stopAfterEpoch
         \/ lastEpoch' # lastEpoch
         \/ (stopOffered /\ ~stopOffered')
         \/ (rPc # "stopped" /\ rPc' = "stopped"))
          => inFlight = {}]_vars

\* A stop signal is waiting on stopAt while the RunEpoch of the second tick
\* is in progress.
C21_Witness ==
  /\ rPc = "inEpoch"
  /\ stopOffered
  /\ inFlight = {rEpoch}
  /\ rEpoch = 2
  /\ stopAfterEpoch = MaxInt64

\* C29 as stated: once a stop signal carrying s has been received, no
\* RunEpoch is started for an epoch index greater than s.
C29_NoEpochPastStop ==
  rPc = "inEpoch" => rEpoch <= stopAfterEpoch

\* C30 as stated: over its whole run a submitter sends exactly one value on
\* lastEpoch, and it sends it at the moment it exits.
C30_OneValueAtExit ==
  /\ Len(lastEpoch) <= 1
  /\ lastEpoch # <<>> => rPc = "stopped"
  /\ rPc = "stopped" => Len(lastEpoch) = 1

\* Whether what was decoded has the field values of the policy encoded.
SameFields(d, p) ==
  /\ d.wellFormed
  /\ d.count = Len(p.voters)
  /\ U32Is(d.rewardEpochId, p.rewardEpochId)
  /\ U32Is(d.startVotingRoundId, p.startVotingRoundId)
  /\ d.threshold = p.threshold
  /\ d.seed = p.seed
  /\ d.voters = p.voters
  /\ d.weights = p.weights

C32_SignsRegisteredEpoch ==
  \A k \in 1..Len(iter) :
    iter[k].step = "sign"
      => \E j \in 1..(k - 1) :
           /\ iter[j].step = "register"
           /\ iter[j].ok
           /\ iter[j].epoch = iter[k].epoch
           /\ iter[1].epoch = iter[k].epoch

\* C31 as stated: once ctx is cancelled, RunContext eventually returns from
\* whichever step it is in, also when it waits for a
\* SigningPolicyInitialized event that never arrives.
C31_CancelReturns ==
  ctxDone ~> (pc = "Returned")

====
